---- MODULE Spec2Model ----
(***************************************************************************)
(* The UltraStar TXT song parser of composer (src/song.hh): the Song      *)
(* aggregate, the field parser (txtParseField), the header-only parse     *)
(* (txtParseHeader), the full parse (txtParse) and the note stream parser  *)
(* (txtParseNote).                                                         *)
(*                                                                         *)
(* A line is a sequence of one-character strings.  Times (double seconds  *)
(* in the code) are integers counting 1/TimeScale seconds; the tempi the   *)
(* model feeds make every conversion exact in that unit.                   *)
(***************************************************************************)
EXTENDS Integers, Sequences, FiniteSets, TLC

VARIABLES
    m_song,     \* the Song the parser fills (Song's fields)
    parser,     \* the SongParser object's fields (m_relative, m_gap, ...)
    vocal,      \* txtParse's local VocalTrack
    line,       \* the local std::string line of txtParseHeader / txtParse
    pc,         \* the source line the running call is at, or how it ended
    call,       \* the Song and what the last parser took from the header, as of
                \* the start of the latest call
    prev,       \* the line the note loop processed last, the state it met and
                \* how txtParseNote resolved and answered it
    file,       \* the head of the song file: the lines header phases have read
    pos,        \* how many lines of the head the running call has read
    nbody       \* how many lines the running call's note loop has read

vars == <<m_song, parser, vocal, line, pc, call, prev, file, pos, nbody>>

----------------------------------------------------------------------------
(* Bounds of the model.                                                    *)

\* header lines (fields and blank lines) a file holds at most
MaxHeaderLines == 4
\* lines the note loop reads at most, after the one that ended the header
MaxBodyLines == 2
\* the largest tick and the largest note length written in a file
MaxTick == 2
MaxLength == 2
\* tempo changes registered with the Timebase Converter on its own
MaxChanges == 3
MaxRest == 2

----------------------------------------------------------------------------
(* std::string and boost helpers, on sequences of characters.  Positions   *)
(* are 0-based as in C++.                                                   *)

\* std::string::npos, size_t(-1)
npos == -1

Digits == <<"0", "1", "2", "3", "4", "5", "6", "7", "8", "9">>

IsDigit(c) == \E i \in 1..10 : Digits[i] = c

DigitVal(c) == (CHOOSE i \in 1..10 : Digits[i] = c) - 1

\* std::isspace in the "C" locale
IsSpace(c) == c \in {" ", "\t", "\n", "\r", "\f"}

\* std::string::find(char): the first position holding c, or npos
find(s, c) ==
    IF \E i \in 1..Len(s) : s[i] = c
    THEN (CHOOSE i \in 1..Len(s) : s[i] = c /\ \A j \in 1..(i - 1) : s[j] # c) - 1
    ELSE npos

\* std::string::find_first_not_of(chars): first position not in cs, or npos
find_first_not_of(s, cs) ==
    IF \E i \in 1..Len(s) : s[i] \notin cs
    THEN (CHOOSE i \in 1..Len(s) : s[i] \notin cs /\ \A j \in 1..(i - 1) : s[j] \in cs) - 1
    ELSE npos

Min(a, b) == IF a <= b THEN a ELSE b
Max(a, b) == IF a >= b THEN a ELSE b

\* std::string::substr(p, n) for p <= size; n = npos takes the rest.  (A p
\* beyond the size, npos included, throws std::out_of_range: the callers
\* test for it before they call.)
substr(s, p, n) ==
    SubSeq(s, p + 1, IF n = npos THEN Len(s) ELSE Min(Len(s), p + n))

\* boost::trim_copy: both ends stripped of whitespace
trim_copy(s) ==
    IF \A i \in 1..Len(s) : IsSpace(s[i]) THEN <<>>
    ELSE LET a == CHOOSE i \in 1..Len(s) :
                     ~IsSpace(s[i]) /\ \A j \in 1..(i - 1) : IsSpace(s[j])
             b == CHOOSE i \in 1..Len(s) :
                     ~IsSpace(s[i]) /\ \A j \in (i + 1)..Len(s) : IsSpace(s[j])
         IN  SubSeq(s, a, b)

----------------------------------------------------------------------------
(* std::istringstream: the characters, the read position and the failbit.   *)

Stream(s) == [s |-> s, p |-> 0, fail |-> FALSE]

\* the position of the first non-whitespace character at or after p
SkipWs(s, p) ==
    IF \E i \in (p + 1)..Len(s) : ~IsSpace(s[i])
    THEN (CHOOSE i \in (p + 1)..Len(s) :
              ~IsSpace(s[i]) /\ \A j \in (p + 1)..(i - 1) : IsSpace(s[j])) - 1
    ELSE Len(s)

\* the position after the run of digits that starts at p
DigitsEnd(s, p) ==
    IF \E i \in (p + 1)..Len(s) : ~IsDigit(s[i])
    THEN (CHOOSE i \in (p + 1)..Len(s) :
              ~IsDigit(s[i]) /\ \A j \in (p + 1)..(i - 1) : IsDigit(s[j])) - 1
    ELSE Len(s)

RECURSIVE NumVal(_)
\* the value of a sequence of decimal digits
NumVal(ds) ==
    IF ds = <<>> THEN 0
    ELSE 10 * NumVal(SubSeq(ds, 1, Len(ds) - 1)) + DigitVal(ds[Len(ds)])

\* iss >> x for an unsigned x whose value is old: skips whitespace and reads
\* digits.  With no digit there the failbit is set and x is left alone
\* (C++98) or zeroed (C++11, cxx11 = TRUE); a failed stream reads nothing.
ExtractUInt(st, old, cxx11) ==
    IF st.fail THEN [st |-> st, val |-> old]
    ELSE LET q == SkipWs(st.s, st.p)
             e == DigitsEnd(st.s, q)
         IN  IF e = q
             THEN [st |-> [st EXCEPT !.p = q, !.fail = TRUE],
                   val |-> IF cxx11 THEN 0 ELSE old]
             ELSE [st |-> [st EXCEPT !.p = e],
                   val |-> NumVal(SubSeq(st.s, q + 1, e))]

\* the digits of an int, read at q2 (after the sign, if neg or plus) as r
SignedDigits(st, q2, neg, r, old, cxx11) ==
    IF r.st.fail \/ SkipWs(st.s, q2) # q2
    THEN [st |-> [st EXCEPT !.p = q2, !.fail = TRUE],
          val |-> IF cxx11 THEN 0 ELSE old]
    ELSE [st |-> r.st, val |-> IF neg THEN 0 - r.val ELSE r.val]

\* iss >> x for an int x: as above, with an optional sign
ExtractInt(st, old, cxx11) ==
    IF st.fail THEN [st |-> st, val |-> old]
    ELSE LET q == SkipWs(st.s, st.p)
             neg == q < Len(st.s) /\ st.s[q + 1] = "-"
             q2 == IF q < Len(st.s) /\ st.s[q + 1] \in {"-", "+"} THEN q + 1 ELSE q
         IN  SignedDigits(st, q2, neg,
                          ExtractUInt([st EXCEPT !.p = q2], old, cxx11), old, cxx11)

\* iss.get(): the next character ("" stands for EOF, which sets the failbit)
StreamGet(st) ==
    IF st.fail \/ st.p >= Len(st.s)
    THEN [st |-> [st EXCEPT !.fail = TRUE], val |-> ""]
    ELSE [st |-> [st EXCEPT !.p = st.p + 1], val |-> st.s[st.p + 1]]

\* std::getline(iss, str): the rest of the stream
StreamRest(st) == SubSeq(st.s, st.p + 1, Len(st.s))

----------------------------------------------------------------------------
(* The Timebase Converter (addBPM, tsTime), which lives in songparser.hh.   *)

\* time: the model's time values per second
TimeScale == 1000

\* ticks per beat
Resolution == 4

\* seconds per tick at a tempo, in time units
Step(bpm) == (60 * TimeScale) \div (bpm * Resolution)

\* the change-points at or before a tick, by their index in m_bpms
ChangePointsBefore(bpms, tick) == {i \in 1..Len(bpms) : bpms[i].ts <= tick}

\* tsTime(tick): the offset of the last change-point at or before the tick
\* plus the ticks since it at its tempo; with no such change-point the zero
\* offset is used as it is.
tsTime(bpms, tick) ==
    LET cps == ChangePointsBefore(bpms, tick)
    IN  IF cps = {} THEN 0
        ELSE LET i == CHOOSE k \in cps : \A j \in cps : j <= k
             IN  bpms[i].begin + (tick - bpms[i].ts) * Step(bpms[i].bpm)

\* a changed addBPM: the running offset is not advanced
addBPM_NoOffset(bpms, ts, bpm) ==
    IF bpm <= 0 THEN [ok |-> FALSE, bpms |-> bpms]
    ELSE [ok |-> TRUE, bpms |-> Append(bpms, [ts |-> ts, bpm |-> bpm, begin |-> 0])]

\* addBPM(ts, bpm): a tempo that is not positive is refused; otherwise the
\* running offset advances at the previous tempo over the ticks since the
\* last change-point and the new change-point is appended.
addBPM(bpms, ts, bpm) ==
    IF bpm <= 0 THEN [ok |-> FALSE, bpms |-> bpms]
    ELSE LET off == IF bpms = <<>> THEN 0
                    ELSE LET b == bpms[Len(bpms)]
                         IN  b.begin + (ts - b.ts) * Step(b.bpm)
         IN  [ok |-> TRUE,
              bpms |-> Append(bpms, [ts |-> ts, bpm |-> bpm, begin |-> off])]

----------------------------------------------------------------------------
(* Notes, tracks and the Song.                                              *)

\* Note::Type, the first character of a note line
NORMAL == ":"
FREESTYLE == "F"
GOLDEN == "*"
SLEEP == "-"

LEAD_VOCAL == "Vocals"

\* VocalTrack(name): a named track without notes
VocalTrack(name) ==
    [name |-> name, notes |-> <<>>, noteMin |-> 2147483647, noteMax |-> -2147483647]

\* Song::vocalTracks without entries
NoTracks == [n \in {} |-> VocalTrack(n)]

\* Song::insertVocalTrack: erase the name, then insert the pair
insertVocalTrack(tracks, name, track) ==
    LET erased == [n \in (DOMAIN tracks) \ {name} |-> tracks[n]]
    IN  [n \in (DOMAIN erased) \cup {name} |-> IF n = name THEN track ELSE erased[n]]

\* Song::dummyVocal, as Song's constructors make it
dummyVocal == VocalTrack(LEAD_VOCAL)

\* the names of TrackName that the model stores tracks under, as
\* std::string's operator< orders them
NamesInOrder == <<"Guitar", "Harmonic 1", "Harmonic 2", "Harmonic 3", "Vocals">>

\* std::less<std::string> on those names
NameLess(a, b) ==
    \E i \in 1..Len(NamesInOrder), j \in 1..Len(NamesInOrder) :
        i < j /\ NamesInOrder[i] = a /\ NamesInOrder[j] = b

\* vocalTracks.begin()->first of a map with entries: the least key
MapBegin(tracks) == CHOOSE k \in DOMAIN tracks : \A j \in DOMAIN tracks : ~NameLess(j, k)

\* a changed getVocalTrack: the LEAD_VOCAL step of the chain is missing
getVocalTrack_NoLead(tracks, vocalTrack) ==
    IF vocalTrack \in DOMAIN tracks THEN tracks[vocalTrack]
    ELSE IF DOMAIN tracks # {} THEN tracks[MapBegin(tracks)]
    ELSE dummyVocal

\* Song::getVocalTrack(vocalTrack) on the map vocalTracks
getVocalTrack(tracks, vocalTrack) ==
    IF vocalTrack \in DOMAIN tracks THEN tracks[vocalTrack]
    ELSE IF LEAD_VOCAL \in DOMAIN tracks THEN tracks[LEAD_VOCAL]
    ELSE IF DOMAIN tracks # {} THEN tracks[MapBegin(tracks)]
    ELSE dummyVocal

\* Song::hasVocals
hasVocals(song) == DOMAIN song.vocalTracks # {}

\* Song::path of the song the model parses
SongPath == <<"d", "/">>

\* std::map<std::string, std::string> music without entries
NoMusic == [k \in {} |-> <<>>]

\* music[k] = v
MapSet(m, k, v) == [x \in (DOMAIN m) \cup {k} |-> IF x = k THEN v ELSE m[x]]

\* the Song as its constructor leaves it, before any parse
NewSong ==
    [path |-> SongPath, title |-> <<>>, artist |-> <<>>, edition |-> <<>>,
     genre |-> <<>>, creator |-> <<>>, language |-> <<>>, cover |-> <<>>,
     background |-> <<>>, video |-> <<>>, music |-> NoMusic,
     start |-> 0, videoGap |-> 0, preview_start |-> 0,
     vocalTracks |-> NoTracks, loadStatus |-> "NONE", b0rkedTracks |-> FALSE]

\* the fields of a SongParser as its constructor leaves them
NewParser ==
    [m_relative |-> FALSE, m_gap |-> 0, m_bpm |-> 0, m_prevtime |-> 0,
     m_prevts |-> 0, m_relativeShift |-> 0, m_bpms |-> <<>>]

----------------------------------------------------------------------------
(* The field parser.                                                        *)

\* the keys txtParseField knows
K_TITLE == <<"T", "I", "T", "L", "E">>
K_ARTIST == <<"A", "R", "T", "I", "S", "T">>
K_EDITION == <<"E", "D", "I", "T", "I", "O", "N">>
K_GENRE == <<"G", "E", "N", "R", "E">>
K_CREATOR == <<"C", "R", "E", "A", "T", "O", "R">>
K_COVER == <<"C", "O", "V", "E", "R">>
K_MP3 == <<"M", "P", "3">>
K_VOCALS == <<"V", "O", "C", "A", "L", "S">>
K_VIDEO == <<"V", "I", "D", "E", "O">>
K_BACKGROUND == <<"B", "A", "C", "K", "G", "R", "O", "U", "N", "D">>
K_START == <<"S", "T", "A", "R", "T">>
K_VIDEOGAP == <<"V", "I", "D", "E", "O", "G", "A", "P">>
K_PREVIEWSTART == <<"P", "R", "E", "V", "I", "E", "W", "S", "T", "A", "R", "T">>
K_RELATIVE == <<"R", "E", "L", "A", "T", "I", "V", "E">>
K_GAP == <<"G", "A", "P">>
K_BPM == <<"B", "P", "M">>
K_LANGUAGE == <<"L", "A", "N", "G", "U", "A", "G", "E">>

\* SongParserUtil::assign(double&, str): the text as a number; text that is
\* no number throws.  The model reads unsigned decimal integers.
IsNumber(str) == str # <<>> /\ \A i \in 1..Len(str) : IsDigit(str[i])

\* SongParserUtil::assign(bool&, str): a numeric flag
AssignBool(str) == NumVal(str) # 0

\* value.substr(value.find_first_not_of(chars)): [ok, val]; substr throws
\* std::out_of_range when every character of value is in chars
StripLeading(value, chars) ==
    LET p == find_first_not_of(value, chars)
    IN  IF p = npos THEN [ok |-> FALSE, val |-> <<>>]
        ELSE [ok |-> TRUE, val |-> substr(value, p, npos)]

\* what a call of txtParseField or txtParseNote hands back: ret is "true",
\* "false" or "throw", with the Song and the parser as the call leaves them
Outcome(ret, song, self) == [ret |-> ret, song |-> song, self |-> self]

\* a changed SetStripped: the value is added to what the field holds
SetStripped_Appending(song, self, field, value, chars) ==
    LET r == StripLeading(value, chars)
    IN  IF r.ok THEN Outcome("true", [song EXCEPT ![field] = @ \o r.val], self)
        ELSE Outcome("throw", song, self)

\* m_song.<field> = value.substr(value.find_first_not_of(chars))
SetStripped(song, self, field, value, chars) ==
    LET r == StripLeading(value, chars)
    IN  IF r.ok THEN Outcome("true", [song EXCEPT ![field] = r.val], self)
        ELSE Outcome("throw", song, self)

\* assign(m_song.<field>, value) for a double field holding seconds
SetSeconds(song, self, field, value) ==
    IF IsNumber(value)
    THEN Outcome("true", [song EXCEPT ![field] = NumVal(value) * TimeScale], self)
    ELSE Outcome("throw", song, self)

\* a changed UnknownKey: a key that is not known is refused
UnknownKey_Refused(song, self) == Outcome("throw", song, self)

\* no branch of the chain of comparisons matches the key: return true
UnknownKey(song, self) == Outcome("true", song, self)

\* the key dispatch of txtParseField, for a value that is not empty
ApplyField(song, self, key, value) ==
    CASE key = K_TITLE -> SetStripped(song, self, "title", value, {" ", ":"})
      [] key = K_ARTIST -> SetStripped(song, self, "artist", value, {" "})
      [] key = K_EDITION -> SetStripped(song, self, "edition", value, {" "})
      [] key = K_GENRE -> SetStripped(song, self, "genre", value, {" "})
      [] key = K_CREATOR -> SetStripped(song, self, "creator", value, {" "})
      [] key = K_COVER -> Outcome("true", [song EXCEPT !.cover = value], self)
      [] key = K_MP3 ->
            Outcome("true",
                    [song EXCEPT !.music = MapSet(@, "background", song.path \o value)],
                    self)
      [] key = K_VOCALS ->
            Outcome("true",
                    [song EXCEPT !.music = MapSet(@, "vocals", song.path \o value)],
                    self)
      [] key = K_VIDEO -> Outcome("true", [song EXCEPT !.video = value], self)
      [] key = K_BACKGROUND -> Outcome("true", [song EXCEPT !.background = value], self)
      [] key = K_START -> SetSeconds(song, self, "start", value)
      [] key = K_VIDEOGAP -> SetSeconds(song, self, "videoGap", value)
      [] key = K_PREVIEWSTART -> SetSeconds(song, self, "preview_start", value)
      [] key = K_RELATIVE ->
            IF IsNumber(value)
            THEN Outcome("true", song, [self EXCEPT !.m_relative = AssignBool(value)])
            ELSE Outcome("throw", song, self)
      [] key = K_GAP ->
            IF IsNumber(value)
            THEN Outcome("true", song,
                         [self EXCEPT !.m_gap = (NumVal(value) * TimeScale) \div 1000])
            ELSE Outcome("throw", song, self)
      [] key = K_BPM ->
            IF IsNumber(value)
            THEN Outcome("true", song, [self EXCEPT !.m_bpm = NumVal(value)])
            ELSE Outcome("throw", song, self)
      [] key = K_LANGUAGE -> SetStripped(song, self, "language", value, {" "})
      [] OTHER -> UnknownKey(song, self)

\* SongParser::txtParseField(line)
txtParseField(ln, song, self) ==
    IF ln = <<>> THEN Outcome("true", song, self)
    ELSE IF ln[1] # "#" THEN Outcome("false", song, self)
    ELSE LET p == find(ln, ":")
         IN  IF p = npos THEN Outcome("throw", song, self)
             ELSE LET key == trim_copy(substr(ln, 1, p - 1))
                      value == trim_copy(substr(ln, p + 1, npos))
                  IN  IF value = <<>> THEN Outcome("true", song, self)
                      ELSE ApplyField(song, self, key, value)

----------------------------------------------------------------------------
(* The note stream parser.                                                  *)

\* a Note as its constructor leaves it, of a type
NewNote(type) ==
    [type |-> type, begin |-> 0, end |-> 0, note |-> 0, notePrev |-> 0,
     syllable |-> <<>>, lineBreak |-> FALSE]

\* what txtParseNote hands back: ret, the track and the parser's fields,
\* and the Note n as the line resolved it (NoNote for a line without one)
NoteOutcome(ret, track, self, n) ==
    [ret |-> ret, vocal |-> track, self |-> self, n |-> n]

NoNote == NewNote("")

\* addBPM(ts, bpm) for a B line that was read, a as addBPM answers
RegisterBPM(failed, a, track, self) ==
    IF failed \/ ~a.ok THEN NoteOutcome("throw", track, self, NoNote)
    ELSE NoteOutcome("true", track, [self EXCEPT !.m_bpms = a.bpms], NoNote)

\* iss >> ts >> bpm, with ts read as r1 and bpm as r2
ReadBPM(r1, r2, track, self) ==
    RegisterBPM(r2.st.fail, addBPM(self.m_bpms, r1.val, r2.val), track, self)

\* iss >> ts >> bpm, with ts read as r1
ReadBPMTs(r1, track, self, cxx11) ==
    ReadBPM(r1, ExtractUInt(r1.st, 0, cxx11), track, self)

\* the B line: iss.ignore(), iss >> ts >> bpm, addBPM(ts, bpm)
ParseBPMLine(ln, track, self, cxx11) ==
    ReadBPMTs(ExtractUInt([Stream(ln) EXCEPT !.p = 1], 0, cxx11), track, self, cxx11)

\* the B line ln: whether txtParseNote calls addBPM for it (the two numbers
\* were read), and the arguments of that call
AddBPMArguments(ln) ==
    LET r1 == ExtractUInt([Stream(ln) EXCEPT !.p = 1], 0, TRUE)
        r2 == ExtractUInt(r1.st, 0, TRUE)
    IN  [called |-> ~r2.st.fail, ts |-> r1.val, bpm |-> r2.val]

\* a NORMAL, FREESTYLE or GOLDEN line whose three numbers were read as r1,
\* r2 and r3: [ok, n, ts, shift] with n.end set, ts the resolved tick and
\* shift the value of m_relativeShift after the switch
NoteFields(n0, r1, r2, r3, self) ==
    LET ts == IF self.m_relative THEN r1.val + self.m_relativeShift ELSE r1.val
        g2 == StreamGet(r3.st)
        syl == IF g2.val = " " THEN StreamRest(g2.st) ELSE <<>>
    IN  IF r3.st.fail
        THEN [ok |-> FALSE, n |-> n0, ts |-> ts, shift |-> self.m_relativeShift]
        ELSE [ok |-> TRUE,
              n |-> [n0 EXCEPT !.note = r3.val, !.notePrev = r3.val,
                               !.syllable = syl,
                               !.end = tsTime(self.m_bpms, ts + r2.val)],
              ts |-> ts, shift |-> self.m_relativeShift]

\* iss >> ts >> length >> n.note, with ts read as r1 and length as r2
ReadPitch(n0, r1, r2, self, cxx11) ==
    NoteFields(n0, r1, r2, ExtractInt(r2.st, n0.note, cxx11), self)

\* iss >> ts >> length >> n.note, with ts read as r1
ReadLength(n0, r1, self, cxx11) ==
    ReadPitch(n0, r1, ExtractUInt(r1.st, 0, cxx11), self, cxx11)

\* a SLEEP line whose numbers were read as r1 and r2
SleepFields(n0, r1, r2, self) ==
    LET end0 == IF r2.st.fail THEN r1.val ELSE r2.val
        ts == IF self.m_relative THEN r1.val + self.m_relativeShift ELSE r1.val
        end == IF self.m_relative THEN end0 + self.m_relativeShift ELSE end0
    IN  [ok |-> TRUE,
         n |-> [n0 EXCEPT !.end = tsTime(self.m_bpms, end)],
         ts |-> ts,
         shift |-> IF self.m_relative THEN end ELSE self.m_relativeShift]

\* iss >> ts >> end, with ts read as r1
ReadSleepEnd(n0, r1, self, cxx11) ==
    SleepFields(n0, r1, ExtractUInt(r1.st, 0, cxx11), self)

\* the switch on n.type, g the character that iss.get() read
SwitchOnType(g, self, cxx11) ==
    IF g.val \in {NORMAL, FREESTYLE, GOLDEN}
    THEN ReadLength(NewNote(g.val), ExtractUInt(g.st, self.m_prevts, cxx11), self, cxx11)
    ELSE IF g.val = SLEEP
    THEN ReadSleepEnd(NewNote(g.val), ExtractUInt(g.st, self.m_prevts, cxx11), self, cxx11)
    ELSE [ok |-> FALSE, n |-> NewNote(g.val), ts |-> self.m_prevts,
          shift |-> self.m_relativeShift]

\* n.type = Note::Type(iss.get()) and the switch on it
ParseNoteFields(ln, self, cxx11) == SwitchOnType(StreamGet(Stream(ln)), self, cxx11)

\* the workaround for a SLEEP as previous note: it collapses to its begin,
\* and moves to the new begin when the note before it ends earlier
\* (p2Earlier: p2.end < n.begin)
CollapseSleep(p, p2Earlier, nBegin) ==
    IF p.type = SLEEP
    THEN IF p2Earlier THEN [p EXCEPT !.begin = nBegin, !.end = nBegin]
         ELSE [p EXCEPT !.end = p.begin]
    ELSE p

\* changed CanShorten: a strict comparison, and no comparison at all
CanShorten_Strict(p, nBegin) == p.begin < nBegin

CanShorten_Always(p, nBegin) == TRUE

\* "Can we just make the previous note shorter?"
CanShorten(p, nBegin) == p.begin <= nBegin

\* the end of overlap recovery, p the previous note after the SLEEP step
ShortenOrSkip(notes, p, nBegin) ==
    IF CanShorten(p, nBegin)
    THEN [skip |-> FALSE,
          notes |-> [notes EXCEPT ![Len(notes)] = [p EXCEPT !.end = nBegin]]]
    ELSE [skip |-> TRUE, notes |-> [notes EXCEPT ![Len(notes)] = p]]

\* overlap recovery on a track with notes: [skip, notes].  The code reads
\* the note two back (*++notes.rbegin()) also when the track holds one
\* note; what that comparison then yields is the parameter garbage.
RecoverOverlap(notes, nBegin, garbage) ==
    ShortenOrSkip(notes,
                  CollapseSleep(notes[Len(notes)],
                                IF Len(notes) >= 2 THEN notes[Len(notes) - 1].end < nBegin
                                ELSE garbage,
                                nBegin),
                  nBegin)

\* the pitch range of the track, for notes that sound
UpdateRange(track, n) ==
    IF n.type # SLEEP /\ n.end > n.begin
    THEN [track EXCEPT !.noteMin = Min(@, n.note), !.noteMax = Max(@, n.note)]
    ELSE track

\* changed NormalizeSleep: only the begin of the SLEEP is moved, and the
\* note before the SLEEP is not flagged
NormalizeSleep_BeginOnly(notes, n, prevtime) ==
    Append([notes EXCEPT ![Len(notes)].lineBreak = TRUE],
           [n EXCEPT !.begin = prevtime])

NormalizeSleep_NoFlag(notes, n, prevtime) ==
    Append(notes, [n EXCEPT !.begin = prevtime, !.end = prevtime])

\* "Normalize sleep notes": the SLEEP and the flagged note before it
NormalizeSleep(notes, n, prevtime) ==
    Append([notes EXCEPT ![Len(notes)].lineBreak = TRUE],
           [n EXCEPT !.begin = prevtime, !.end = prevtime])

\* a changed PushBack: a SLEEP is stored on an empty track too
PushBack_LeadingSleep(track, self, n) ==
    NoteOutcome("true",
                [track EXCEPT !.notes =
                    Append(@, IF n.type = SLEEP
                              THEN [n EXCEPT !.begin = self.m_prevtime,
                                             !.end = self.m_prevtime]
                              ELSE n)],
                [self EXCEPT !.m_prevtime = n.end], n)

\* the end of txtParseNote, from "double prevtime = m_prevtime" on, for a
\* track whose range is updated
PushBack(track, self, n) ==
    IF n.type = SLEEP
    THEN IF track.notes = <<>>
         THEN NoteOutcome("true", track, [self EXCEPT !.m_prevtime = n.end], n)
         ELSE NoteOutcome("true",
                          [track EXCEPT !.notes = NormalizeSleep(@, n, self.m_prevtime)],
                          [self EXCEPT !.m_prevtime = n.end], n)
    ELSE NoteOutcome("true", [track EXCEPT !.notes = Append(@, n)],
                     [self EXCEPT !.m_prevtime = n.end], n)

\* the end of txtParseNote, from "double prevtime = m_prevtime" on
AppendNote(track, self, n) == PushBack(UpdateRange(track, n), self, n)

\* after overlap recovery r: the note is skipped or goes to the track
AfterRecovery(r, track, self, n) ==
    IF r.skip THEN NoteOutcome("true", [track EXCEPT !.notes = r.notes], self, n)
    ELSE AppendNote([track EXCEPT !.notes = r.notes], self, n)

\* if (n.begin < m_prevtime) ..., for the note n with its begin set and the
\* parser with m_relativeShift and m_prevts set
PlaceNote(track, self, n, garbage) ==
    IF n.begin < self.m_prevtime
    THEN IF Len(track.notes) >= 1
         THEN AfterRecovery(RecoverOverlap(track.notes, n.begin, garbage), track, self, n)
         ELSE NoteOutcome("throw", track, self, n)
    ELSE AppendNote(track, self, n)

\* n.begin = tsTime(ts), m_relativeShift and m_prevts, for the fields f
ResolveNote(f, track, self, garbage) ==
    IF ~f.ok
    THEN NoteOutcome("throw", track, self, NoNote)
    ELSE PlaceNote(track,
                   [self EXCEPT !.m_relativeShift =
                                    IF self.m_relative /\ track.notes = <<>>
                                    THEN f.ts ELSE f.shift,
                                !.m_prevts = f.ts],
                   [f.n EXCEPT !.begin = tsTime(self.m_bpms, f.ts)],
                   garbage)

\* a note line: the fields, the begin time, then overlap recovery
ParseNoteLine(ln, track, self, cxx11, garbage) ==
    ResolveNote(ParseNoteFields(ln, self, cxx11), track, self, garbage)

\* line.erase(line.size() - 1) when the line ends in a carriage return
StripCR(ln) == IF ln[Len(ln)] = "\r" THEN SubSeq(ln, 1, Len(ln) - 1) ELSE ln

\* a changed KeyInNotes: a key among the notes is passed over
KeyInNotes_Ignored(track, self) == NoteOutcome("true", track, self, NoNote)

\* if (line[0] == '#') throw "Key found in the middle of notes"
KeyInNotes(track, self) == NoteOutcome("throw", track, self, NoNote)

\* a changed IsEndLine: the sentinel in the wrong case
IsEndLine_LowerCase(l2) == l2[1] = "e"

\* if (line[0] == 'E') return false
IsEndLine(l2) == l2[1] = "E"

\* SongParser::txtParseNote(line, vocal)
txtParseNote(ln, track, self, cxx11, garbage) ==
    IF ln = <<>> \/ ln = <<"\r">> THEN NoteOutcome("true", track, self, NoNote)
    ELSE IF ln[1] = "#" THEN KeyInNotes(track, self)
    ELSE LET l2 == StripCR(ln)
         IN  IF IsEndLine(l2) THEN NoteOutcome("false", track, self, NoNote)
             ELSE IF l2[1] = "B" THEN ParseBPMLine(l2, track, self, cxx11)
             ELSE IF l2[1] = "P" THEN NoteOutcome("true", track, self, NoNote)
             ELSE ParseNoteLine(l2, track, self, cxx11, garbage)

----------------------------------------------------------------------------
(* The lines the model feeds the parser.                                    *)

RECURSIVE NumStr(_)
\* a number as it is written in a file
NumStr(n) ==
    IF n < 10 THEN <<Digits[n + 1]>>
    ELSE NumStr(n \div 10) \o <<Digits[(n % 10) + 1]>>

HeaderLine(key, value) == <<"#">> \o key \o <<":">> \o value

NoteLine(type, ts, length, pitch) ==
    <<type, " ">> \o NumStr(ts) \o <<" ">> \o NumStr(length) \o <<" ">> \o NumStr(pitch)

SleepLine(ts) == <<SLEEP, " ">> \o NumStr(ts)

SleepLine2(ts, end) == <<SLEEP, " ">> \o NumStr(ts) \o <<" ">> \o NumStr(end)

BPMLine(ts, bpm) == <<"B", " ">> \o NumStr(ts) \o <<" ">> \o NumStr(bpm)

\* what getline yields at the end of the file: no line
EOF == <<"<eof>">>

Ticks == 0..MaxTick

\* the header of the files whose bodies are explored: these fields, each
\* at most once, in this order
FewFields ==
    << HeaderLine(K_BPM, NumStr(300)), HeaderLine(K_TITLE, <<"a">>),
       HeaderLine(K_ARTIST, <<"b">>), HeaderLine(K_RELATIVE, <<"1">>) >>

\* the header lines of the files whose headers are explored: any of these,
\* each at most once, in this order
ManyFields ==
    << HeaderLine(K_TITLE, <<"a">>),
       <<"#", " ">> \o K_ARTIST \o <<" ", ":", "b", "\r">>,
       HeaderLine(K_TITLE, <<" ", ":", "x">>),
       HeaderLine(K_TITLE, <<":">>),
       HeaderLine(K_ARTIST, <<" ">>),
       HeaderLine(K_EDITION, <<"e">>),
       HeaderLine(K_GENRE, <<"g">>),
       HeaderLine(K_CREATOR, <<"c">>),
       HeaderLine(K_LANGUAGE, <<"l">>),
       HeaderLine(K_COVER, <<"c">>),
       HeaderLine(K_MP3, <<"m">>),
       HeaderLine(K_VOCALS, <<"v">>),
       HeaderLine(K_VIDEO, <<"v">>),
       HeaderLine(K_BACKGROUND, <<"g">>),
       HeaderLine(K_START, <<"1">>),
       HeaderLine(K_VIDEOGAP, <<"2">>),
       HeaderLine(K_PREVIEWSTART, <<"3">>),
       HeaderLine(K_RELATIVE, <<"1">>),
       HeaderLine(K_GAP, NumStr(500)),
       HeaderLine(K_BPM, NumStr(300)),
       HeaderLine(K_BPM, <<"x">>),
       HeaderLine(<<"F", "O", "O">>, <<"1">>),
       <<"#">> \o K_TITLE,
       <<>>,
       HeaderLine(K_ARTIST, <<"c">>) >>

\* the lines that end those headers
EndLines == { <<"E">>, <<"\r">> }

\* body lines after which the note loop goes on with a changed state
NoteLines ==
    { NoteLine(NORMAL, t, l, 0) : t \in Ticks, l \in {0, MaxLength} }
    \cup { NoteLine(GOLDEN, 1, 1, 5) \o <<" ", "l", "a", "\r">> }
    \cup { SleepLine(t) : t \in Ticks }
    \cup { SleepLine2(0, MaxTick), SleepLine2(MaxTick, 0), <<SLEEP>> }
    \cup { BPMLine(1, 150) }

\* body lines that are skipped, end the note stream or are refused
OtherLines ==
    { <<>>, <<"\r">>, <<"P", " ", "1">>, <<"E">>,
      HeaderLine(K_GENRE, <<"g">>),
      <<"B", " ", "2">>, BPMLine(2, 0), <<FREESTYLE, " ", "1">>,
      <<"x", " ", "1", " ", "1", " ", "0">> }

BodyLines == NoteLines \cup OtherLines

\* whether the field loop goes on after a line that does not throw
ContinuesHeader(ln) == ln = <<>> \/ ln[1] = "#"

\* the body lines that end the header
Terminators == {l \in BodyLines : ~ContinuesHeader(l)}

----------------------------------------------------------------------------
(* The parse calls.  pc is the source line the running call is at           *)
(* (h: txtParseHeader, p: txtParse) or how the latest call ended.           *)

Running == pc \in {"h182", "h183", "p192", "p193", "p194", "p196"}

\* prev before the note loop has run
NoPrev == [line |-> <<>>, vocal |-> VocalTrack(LEAD_VOCAL), parser |-> NewParser,
           nbody |-> 0, ret |-> "none", n |-> NoNote]

\* what a parser holds of the header: the fields txtParseField assigns
FromHeader(self) ==
    [m_relative |-> self.m_relative, m_gap |-> self.m_gap, m_bpm |-> self.m_bpm]

Init ==
    /\ m_song = NewSong
    /\ parser = NewParser
    /\ vocal = VocalTrack(LEAD_VOCAL)
    /\ line = <<>>
    /\ pc = "idle"
    /\ call = [song |-> NewSong, parser |-> FromHeader(NewParser), kind |-> "none"]
    /\ prev = NoPrev
    /\ file = <<>>
    /\ pos = 0
    /\ nbody = 0

\* the load status the caller records after a parse that returned
MarkLoaded(status, kind) ==
    IF kind = "full" THEN "FULL"
    ELSE IF status = "NONE" THEN "HEADER" ELSE status

\* a new SongParser on the Song, which runs txtParseHeader, or txtParse
\* once the header is loaded; a Song that is fully loaded is not parsed again
StartParse(kind) ==
    /\ ~Running
    /\ m_song.loadStatus = (IF kind = "full" THEN "HEADER" ELSE m_song.loadStatus)
    /\ m_song.loadStatus # "FULL"
    /\ pc' = IF kind = "header" THEN "h182" ELSE "p192"
    /\ parser' = NewParser
    /\ vocal' = VocalTrack(LEAD_VOCAL)
    /\ line' = <<>>
    /\ call' = [song |-> m_song, parser |-> FromHeader(parser), kind |-> kind]
    /\ prev' = NoPrev
    /\ pos' = 0
    /\ nbody' = 0
    /\ UNCHANGED <<m_song, file>>

StartHeader == StartParse("header")

StartFull == StartParse("full")

\* the fields of an ordered header that may follow the lines read so far
LaterFields(H) ==
    {H[i] : i \in {k \in 1..Len(H) : \A j \in k..Len(H) : \A q \in 1..pos : file[q] # H[j]}}

\* getline in a field loop: the next line of the head of the file, or, past
\* what has been read before, one of the lines L (or the end of the file)
FieldCandidates(L) ==
    IF pos < Len(file) THEN {file[pos + 1]}
    ELSE {l \in L \cup {EOF} : ContinuesHeader(l) => pos < MaxHeaderLines}

\* while (getline(line) && txtParseField(line)) {}, one iteration; the loop
\* is left at next, an exception ends the call at failed
FieldLoop(L, again, next, failed) ==
    \E l \in FieldCandidates(L) :
        /\ pos' = pos + 1
        /\ file' = IF pos < Len(file) THEN file ELSE Append(file, l)
        /\ IF l = EOF
           THEN /\ line' = <<>>
                /\ pc' = next
                /\ UNCHANGED <<m_song, parser>>
           ELSE LET r == txtParseField(l, m_song, parser)
                IN  /\ line' = l
                    /\ m_song' = r.song
                    /\ parser' = r.self
                    /\ pc' = CASE r.ret = "true" -> again
                               [] r.ret = "false" -> next
                               [] OTHER -> failed
        /\ UNCHANGED <<vocal, call, prev, nbody>>

\* if (m_bpm != 0.0) addBPM(0, m_bpm)
RegisterHeaderBPM(self) ==
    IF self.m_bpm # 0 THEN addBPM(self.m_bpms, 0, self.m_bpm)
    ELSE [ok |-> TRUE, bpms |-> self.m_bpms]

\* whether txtParseHeader and txtParse call addBPM for the header's BPM, and
\* the arguments of that call
HeaderBPMArguments(self) ==
    [called |-> self.m_bpm # 0, ts |-> 0, bpm |-> self.m_bpm]

\* a changed RequiredFieldsMissing: the artist is not looked at
RequiredFieldsMissing_TitleOnly(song) == song.title = <<>>

\* if (s.title.empty() || s.artist.empty()) throw
RequiredFieldsMissing(song) == song.title = <<>> \/ song.artist = <<>>

\* txtParseHeader, line 182
TxtParseHeader182(L) ==
    /\ pc = "h182"
    /\ FieldLoop(L, "h182", "h183", "header_failed")

\* a changed InsertPlaceholder: a lead-vocal track that exists is kept
InsertPlaceholder_IfNone(tracks) ==
    IF LEAD_VOCAL \in DOMAIN tracks THEN tracks
    ELSE insertVocalTrack(tracks, LEAD_VOCAL, VocalTrack(LEAD_VOCAL))

\* s.insertVocalTrack(TrackName::LEAD_VOCAL, VocalTrack(TrackName::LEAD_VOCAL))
InsertPlaceholder(tracks) ==
    insertVocalTrack(tracks, LEAD_VOCAL, VocalTrack(LEAD_VOCAL))

\* txtParseHeader, lines 183 to 185
TxtParseHeader183 ==
    /\ pc = "h183"
    /\ LET a == RegisterHeaderBPM(parser)
       IN  IF RequiredFieldsMissing(m_song) \/ ~a.ok
           THEN /\ pc' = "header_failed"
                /\ UNCHANGED <<m_song, parser>>
           ELSE /\ pc' = "header_done"
                /\ parser' = [parser EXCEPT !.m_bpms = a.bpms]
                /\ m_song' =
                     [m_song EXCEPT
                        !.vocalTracks = InsertPlaceholder(@),
                        !.loadStatus = MarkLoaded(@, "header")]
    /\ UNCHANGED <<vocal, line, call, prev, file, pos, nbody>>

\* txtParse, line 192
TxtParse192(L) ==
    /\ pc = "p192"
    /\ FieldLoop(L, "p192", "p193", "full_failed")

\* txtParse, line 193
TxtParse193 ==
    /\ pc = "p193"
    /\ LET a == RegisterHeaderBPM(parser)
       IN  IF a.ok
           THEN pc' = "p194" /\ parser' = [parser EXCEPT !.m_bpms = a.bpms]
           ELSE pc' = "full_failed" /\ UNCHANGED parser
    /\ UNCHANGED <<m_song, vocal, line, call, prev, file, pos, nbody>>

\* getline in the note loop
NoteCandidates(B) == IF nbody < MaxBodyLines THEN B \cup {EOF} ELSE {EOF}

\* the language standards of the build that tell on a line: a failed
\* extraction is read afterwards on a SLEEP line only (end = ts)
StandardsThatDiffer(ln) ==
    IF ln # <<>> /\ ln[1] = SLEEP THEN BOOLEAN ELSE {FALSE}

\* what the read of the note two back may yield on a track: it is out of
\* the track's bounds on a track of one note only
ReadsThatDiffer(track) ==
    IF Len(track.notes) = 1 THEN BOOLEAN ELSE {FALSE}

\* one iteration of the note loop, r what txtParseNote handed back: the
\* loop goes on with the next line, or ends
NoteLoop(r, B) ==
    /\ prev' = [line |-> line, vocal |-> vocal, parser |-> parser,
                 nbody |-> nbody, ret |-> r.ret, n |-> r.n]
    /\ vocal' = r.vocal
    /\ parser' = r.self
    /\ IF r.ret = "true"
       THEN \E l \in NoteCandidates(B) :
               IF l = EOF
               THEN line' = <<>> /\ pc' = "p196" /\ UNCHANGED nbody
               ELSE line' = l /\ pc' = "p194" /\ nbody' = nbody + 1
       ELSE /\ pc' = IF r.ret = "false" THEN "p196" ELSE "full_failed"
            /\ UNCHANGED <<line, nbody>>

\* a changed TxtParse194: the notes go to the Song's track as they are parsed
TxtParse194_Publishing(B) ==
    /\ pc = "p194"
    /\ \E cxx11 \in StandardsThatDiffer(line), garbage \in ReadsThatDiffer(vocal) :
         /\ NoteLoop(txtParseNote(line, vocal, parser, cxx11, garbage), B)
         /\ m_song' = [m_song EXCEPT
                         !.vocalTracks = insertVocalTrack(@, LEAD_VOCAL, vocal')]
    /\ UNCHANGED <<call, file, pos>>

\* txtParse, line 194: while (txtParseNote(line, vocal) && getline(line)) {},
\* one iteration
TxtParse194(B) ==
    /\ pc = "p194"
    /\ \E cxx11 \in StandardsThatDiffer(line), garbage \in ReadsThatDiffer(vocal) :
         NoteLoop(txtParseNote(line, vocal, parser, cxx11, garbage), B)
    /\ UNCHANGED <<m_song, call, file, pos>>

\* a changed DropTerminator: the type of the last note is not looked at
DropTerminator_AnyType(notes) ==
    IF notes # <<>> /\ notes[Len(notes)].begin = notes[Len(notes)].end
    THEN SubSeq(notes, 1, Len(notes) - 1)
    ELSE notes

\* "Workaround for the terminating : 1 0 0 line, written by some converters"
DropTerminator(notes) ==
    IF notes # <<>> /\ notes[Len(notes)].type # SLEEP
       /\ notes[Len(notes)].begin = notes[Len(notes)].end
    THEN SubSeq(notes, 1, Len(notes) - 1)
    ELSE notes

\* txtParse, lines 196 to 198
TxtParse196 ==
    /\ pc = "p196"
    /\ vocal' = [vocal EXCEPT !.notes = DropTerminator(@)]
    /\ m_song' = [m_song EXCEPT
                    !.vocalTracks = insertVocalTrack(@, LEAD_VOCAL, vocal'),
                    !.loadStatus = MarkLoaded(@, "full")]
    /\ pc' = "full_done"
    /\ UNCHANGED <<parser, line, call, prev, file, pos, nbody>>

\* how a full parse ends: in a fatal error, or with this track published
Fatal == [fatal |-> TRUE, track |-> VocalTrack(LEAD_VOCAL)]

Publishes(track) == [fatal |-> FALSE, track |-> [track EXCEPT !.notes = DropTerminator(@)]]

RECURSIVE RestOfParse(_, _, _)
\* the note loop after txtParseNote handed back r, with the lines rest left
AfterLine(r, rest) ==
    IF r.ret = "throw" THEN Fatal
    ELSE IF r.ret = "false" THEN Publishes(r.vocal)
    ELSE RestOfParse(rest, r.vocal, r.self)

\* txtParse from line 194 on, run to its end over the lines that are left
\* of the file (a C++11 build, whose reads stay inside the track)
RestOfParse(lines, track, self) ==
    IF lines = <<>> THEN Publishes(track)
    ELSE AfterLine(txtParseNote(Head(lines), track, self, TRUE, FALSE), Tail(lines))

\* full parses of files with few header fields and any body
Next ==
    \/ StartHeader
    \/ StartFull
    \/ TxtParseHeader182(LaterFields(FewFields) \cup Terminators)
    \/ TxtParseHeader183
    \/ TxtParse192(LaterFields(FewFields) \cup Terminators)
    \/ TxtParse193
    \/ TxtParse194(BodyLines)
    \/ TxtParse196

Spec == Init /\ [][Next]_vars

\* header-only and full parses of files with any header and no body
NextHeader ==
    \/ StartHeader
    \/ StartFull
    \/ TxtParseHeader182(LaterFields(ManyFields) \cup EndLines)
    \/ TxtParseHeader183
    \/ TxtParse192(LaterFields(ManyFields) \cup EndLines)
    \/ TxtParse193
    \/ TxtParse194({})
    \/ TxtParse196

SpecHeader == Init /\ [][NextHeader]_vars

\* Song::reload for the listing on a Song that is fully loaded: a new
\* SongParser, which runs txtParseHeader over the same file
ReloadHeader ==
    /\ ~Running
    /\ m_song.loadStatus = "FULL"
    /\ pc' = "h182"
    /\ parser' = NewParser
    /\ vocal' = VocalTrack(LEAD_VOCAL)
    /\ line' = <<>>
    /\ call' = [song |-> m_song, parser |-> FromHeader(parser), kind |-> "header"]
    /\ prev' = NoPrev
    /\ pos' = 0
    /\ nbody' = 0
    /\ UNCHANGED <<m_song, file>>

\* full parses as in Next, and header-only parses of Songs that are loaded
NextReload ==
    \/ Next
    \/ ReloadHeader

SpecReload == Init /\ [][NextReload]_vars

\* the tempi registered with the converter on its own
Tempi == {150, 300, 600}

\* addBPM(ts, bpm) on the parser's converter, with a tick that is not before
\* the last change-point and a positive tempo
AddTempo ==
    /\ pc = "idle"
    /\ Len(parser.m_bpms) < MaxChanges
    /\ \E ts \in Ticks, bpm \in Tempi :
         /\ parser.m_bpms # <<>> => parser.m_bpms[Len(parser.m_bpms)].ts <= ts
         /\ parser' = [parser EXCEPT !.m_bpms = addBPM(@, ts, bpm).bpms]
    /\ UNCHANGED <<m_song, vocal, line, pc, call, prev, file, pos, nbody>>

\* the Timebase Converter under a sequence of addBPM calls
NextTime == AddTempo

SpecTime == Init /\ [][NextTime]_vars

\* the names tracks are stored under and asked for
TrackNames == {NamesInOrder[i] : i \in 1..Len(NamesInOrder)}

\* the tracks stored under a name: without notes, and with one note
TracksNamed(name) ==
    {VocalTrack(name), [VocalTrack(name) EXCEPT !.notes = <<NewNote(NORMAL)>>]}

\* insertVocalTrack(name, track) on the Song
InsertTrack ==
    /\ pc = "idle"
    /\ \E name \in TrackNames : \E track \in TracksNamed(name) :
         m_song' = [m_song EXCEPT !.vocalTracks = insertVocalTrack(@, name, track)]
    /\ UNCHANGED <<parser, vocal, line, pc, call, prev, file, pos, nbody>>

\* the Song's map of tracks under a sequence of insertVocalTrack calls
NextTracks == InsertTrack

SpecTracks == Init /\ [][NextTracks]_vars

----------------------------------------------------------------------------
(* What the claims speak of.                                                *)

\* C11: under addBPM calls with non-decreasing ticks and positive tempi,
\* tsTime does not decrease from a tick to a later tick, across
\* change-points and change-points of one tick included; with no tempo
\* registered tsTime(0) is 0.
C11_Monotonic ==
    /\ \A a \in 0..(MaxTick + 2), b \in 0..(MaxTick + 2) :
          a <= b => tsTime(parser.m_bpms, a) <= tsTime(parser.m_bpms, b)
    /\ parser.m_bpms = <<>> => tsTime(parser.m_bpms, 0) = 0

\* C11 happens: two change-points share a tick, a later one follows, and
\* time advances at three different rates
C11_Witness ==
    /\ pc = "idle" /\ Len(parser.m_bpms) = 3
    /\ parser.m_bpms[1].ts = parser.m_bpms[2].ts
    /\ parser.m_bpms[2].ts < parser.m_bpms[3].ts
    /\ parser.m_bpms[1].bpm # parser.m_bpms[2].bpm
    /\ parser.m_bpms[2].bpm # parser.m_bpms[3].bpm
    /\ tsTime(parser.m_bpms, parser.m_bpms[3].ts) > tsTime(parser.m_bpms, parser.m_bpms[2].ts)

\* C13: after a header-only parse that returned, the Song has a lead-vocal
\* track and that track has no notes, whatever track the Song had before;
\* after a header-only parse that failed, the Song's tracks are what they
\* were when the call began.
C13_Placeholder ==
    /\ pc = "header_done"
          => /\ hasVocals(m_song)
             /\ LEAD_VOCAL \in DOMAIN m_song.vocalTracks
             /\ getVocalTrack(m_song.vocalTracks, LEAD_VOCAL).notes = <<>>
    /\ pc = "header_failed" => m_song.vocalTracks = call.song.vocalTracks

\* C13 happens: a header-only parse returned on a Song whose lead-vocal
\* track held two notes when the call began
C13_Witness ==
    /\ pc = "header_done"
    /\ LEAD_VOCAL \in DOMAIN call.song.vocalTracks
    /\ Len(call.song.vocalTracks[LEAD_VOCAL].notes) = 2
    /\ m_song.vocalTracks[LEAD_VOCAL].notes = <<>>

\* the stored names from which no stored name comes earlier in the map
Earliest(tracks) ==
    {k \in DOMAIN tracks : \A j \in DOMAIN tracks : j = k \/ NameLess(k, j)}

\* what C12 expects of a lookup: a track stored under the name, else one
\* under "Vocals", else one under the earliest name, else the dummy
Expected(tracks, name) ==
    IF \E k \in DOMAIN tracks : k = name THEN {tracks[name]}
    ELSE IF \E k \in DOMAIN tracks : k = "Vocals" THEN {tracks["Vocals"]}
    ELSE IF DOMAIN tracks # {} THEN {tracks[k] : k \in Earliest(tracks)}
    ELSE {VocalTrack("Vocals")}

\* C12: getVocalTrack(name) follows the chain name, "Vocals", first entry,
\* dummy track; and after insertVocalTrack(name, t) the lookup of name
\* returns t, the name is stored, and no other entry has changed.
C12_LookupChain ==
    /\ [](\A name \in TrackNames :
            /\ Cardinality(Expected(m_song.vocalTracks, name)) = 1
            /\ getVocalTrack(m_song.vocalTracks, name)
                  \in Expected(m_song.vocalTracks, name))
    /\ [][\A name \in TrackNames : \A t \in TracksNamed(name) :
            m_song'.vocalTracks = insertVocalTrack(m_song.vocalTracks, name, t)
                => /\ getVocalTrack(m_song'.vocalTracks, name) = t
                   /\ DOMAIN m_song'.vocalTracks = DOMAIN m_song.vocalTracks \cup {name}
                   /\ \A k \in DOMAIN m_song.vocalTracks :
                         k # name => m_song'.vocalTracks[k] = m_song.vocalTracks[k]]_vars

\* C12 happens: a map without "Vocals" that holds two Harmonic tracks, where
\* the lookup of a name that is not stored falls to the first entry
C12_Witness ==
    /\ DOMAIN m_song.vocalTracks = {"Harmonic 1", "Harmonic 3"}
    /\ getVocalTrack(m_song.vocalTracks, "Guitar") = m_song.vocalTracks["Harmonic 1"]
    /\ m_song.vocalTracks["Harmonic 1"] # m_song.vocalTracks["Harmonic 3"]

\* the lines the running call has read from the head of the file
LinesRead == {file[q] : q \in 1..pos}

\* a line reads "#key:value", spaces aside, with a value that is not blank
SetsKey(ln, key) ==
    /\ ln # <<>> /\ ln[1] = "#"
    /\ \E i \in 2..Len(ln) :
          /\ ln[i] = ":" /\ \A j \in 1..(i - 1) : ln[j] # ":"
          /\ trim_copy(SubSeq(ln, 2, i - 1)) = key
          /\ \E j \in (i + 1)..Len(ln) : ~IsSpace(ln[j])

\* the field stream of the running call has ended: the call has read a line
\* that is no field, or the end of the file
StreamEnded == pos >= 1 /\ ~ContinuesHeader(file[pos])

\* C1: a header-only parse returns only when the lines it read set both the
\* title and the artist to a value that is not blank; when the field stream
\* has ended with the title or the artist empty, the call ends in a fatal
\* error.
C1_RequiredFields ==
    /\ pc = "header_done"
          => /\ m_song.title # <<>> /\ m_song.artist # <<>>
             /\ \E l \in LinesRead : SetsKey(l, K_TITLE)
             /\ \E l \in LinesRead : SetsKey(l, K_ARTIST)
    /\ (call.kind = "header" /\ ~Running /\ StreamEnded
          /\ (m_song.title = <<>> \/ m_song.artist = <<>>))
          => pc = "header_failed"

\* C1 happens: the stream ended after a title and an artist field whose
\* value is blank, and the call failed
C1_Witness ==
    /\ pc = "header_failed" /\ call.kind = "header" /\ StreamEnded
    /\ m_song.title # <<>> /\ m_song.artist = <<>>
    /\ HeaderLine(K_ARTIST, <<" ">>) \in LinesRead

\* the header fields of a Song
HeaderFields(song) ==
    [f \in {"title", "artist", "edition", "genre", "creator", "language", "cover",
            "background", "video", "music", "start", "videoGap", "preview_start"}
       |-> song[f]]

\* a later call on a Song whose header is loaded has run its field loop to
\* the end: it has read the lines that the call before it read
Reparsed ==
    /\ call.song.loadStatus = "HEADER"
    /\ pc \notin {"idle", "h182", "p192"}

\* C7: when the field parser has run a second time over a valid header,
\* every header field of the Song and the gap, the BPM and the relative
\* flag are what the first run left, and the second run has not failed in
\* the header.
C7_HeaderReparse ==
    Reparsed
        => /\ HeaderFields(m_song) = HeaderFields(call.song)
           /\ parser.m_gap = call.parser.m_gap
           /\ parser.m_bpm = call.parser.m_bpm
           /\ parser.m_relative = call.parser.m_relative
           /\ pc # "header_failed"
           /\ pc = "full_failed" => prev.ret = "throw"

\* C7 happens: a second header-only parse, and the header prefix of a full
\* parse, over a header with a title, an artist, a music file and a gap
C7_Witness ==
    /\ Reparsed /\ pc \in {"header_done", "p194"}
    /\ parser.m_gap # 0 /\ DOMAIN m_song.music # {}

\* the note loop has just processed the line prev.line
Processed == pc \in {"p194", "p196", "full_failed"} /\ prev.ret # "none"

\* that line resolved to a note that begins before the last resolved end
Overlap ==
    Processed /\ prev.n.type # "" /\ prev.n.begin < prev.parser.m_prevtime

\* the track the line met, and its last note
PrevNotes == prev.vocal.notes

LastBefore == PrevNotes[Len(PrevNotes)]

\* the previous note as the first step of recovery leaves it: a SLEEP
\* collapses to its begin, or moves to the new begin when the note before it
\* ends earlier
AfterSleepStep ==
    IF LastBefore.type # SLEEP THEN LastBefore
    ELSE IF Len(PrevNotes) >= 2 /\ PrevNotes[Len(PrevNotes) - 1].end < prev.n.begin
    THEN [LastBefore EXCEPT !.begin = prev.n.begin, !.end = prev.n.begin]
    ELSE [LastBefore EXCEPT !.end = LastBefore.begin]

\* the note the line resolved to is the new last note of the track
Appended ==
    /\ prev.ret = "true"
    /\ Len(vocal.notes) = Len(PrevNotes) + 1
    /\ vocal.notes[Len(vocal.notes)].type = prev.n.type
    /\ prev.n.type # SLEEP => vocal.notes[Len(vocal.notes)] = prev.n

\* the lead-vocal track of the Song
Published == m_song.vocalTracks[LEAD_VOCAL]

\* C2: a note line that begins before m_prevtime, on a track with notes
\* whose previous note (after the SLEEP step) begins at or before it: the
\* previous note's end becomes the new begin, the note is appended and the
\* parse does not fail.
C2_OverlapTrimming ==
    (Overlap /\ PrevNotes # <<>> /\ AfterSleepStep.begin <= prev.n.begin)
        => /\ pc # "full_failed"
           /\ Appended
           /\ vocal.notes[Len(PrevNotes)].end = prev.n.begin

\* C2 happens: a note was appended after a SLEEP that recovery moved
C2_Witness ==
    /\ Overlap /\ PrevNotes # <<>> /\ AfterSleepStep.begin <= prev.n.begin
    /\ LastBefore.type = SLEEP /\ prev.n.type = NORMAL
    /\ Appended
    /\ vocal.notes[Len(PrevNotes)].end < LastBefore.end

C4_FlagSetByRecovery ==
    (Overlap /\ PrevNotes # <<>>) => m_song.b0rkedTracks

\* C5 as stated: a SLEEP appended to a track with notes begins and ends at
\* the end of the note before it, whose lineBreak is true.
C5_SleepAtPrecedingEnd ==
    (Processed /\ prev.n.type = SLEEP /\ PrevNotes # <<>> /\ Appended)
        => LET k == Len(vocal.notes)
           IN  /\ vocal.notes[k].begin = vocal.notes[k - 1].end
               /\ vocal.notes[k].end = vocal.notes[k - 1].end
               /\ vocal.notes[k - 1].lineBreak

\* the track that C6 expects txtParse to publish for a parsed sequence
WithoutTerminator(parsed) ==
    IF parsed = <<>> THEN parsed
    ELSE IF parsed[Len(parsed)].type # SLEEP
            /\ parsed[Len(parsed)].begin = parsed[Len(parsed)].end
    THEN SubSeq(parsed, 1, Len(parsed) - 1)
    ELSE parsed

\* C6: when the note stream has ended, the published lead-vocal track is
\* the parsed sequence without its last note if that note is no SLEEP and
\* has begin = end, and the parsed sequence as it is otherwise.
C6_TerminatorCleanup ==
    [][pc = "p196" =>
          /\ pc' = "full_done"
          /\ m_song'.vocalTracks[LEAD_VOCAL].notes = WithoutTerminator(vocal.notes)]_vars

\* C6 happens: an E line ended a stream of two notes and one was published
C6_Witness ==
    /\ pc = "full_done" /\ prev.ret = "false"
    /\ Len(PrevNotes) = 2 /\ Len(Published.notes) = 1

\* C8: in the note loop a line that starts with '#' ends the parse with a
\* fatal error, and no line the note loop processes changes a header field
\* of the Song.
C8_NoKeyAmongNotes ==
    [][/\ (pc = "p194" /\ line # <<>> /\ line[1] = "#") => pc' = "full_failed"
       /\ pc \in {"p194", "p196"} => HeaderFields(m_song') = HeaderFields(m_song)]_vars

\* C8 happens: a key after a parsed note ended the parse
C8_Witness ==
    /\ pc = "full_failed" /\ prev.ret = "throw"
    /\ prev.line # <<>> /\ prev.line[1] = "#"
    /\ PrevNotes # <<>>

\* a seq is the head of another
IsPrefix(a, b) == Len(a) <= Len(b) /\ SubSeq(b, 1, Len(a)) = a

\* C9: a line of the note loop whose first character is E ends the note
\* stream: it changes neither the track nor the parser, no further line is
\* read, and the published track holds only notes parsed before it.
C9_EndSentinel ==
    [][/\ (pc = "p194" /\ line \notin {<<>>, <<"\r">>} /\ line[1] = "E")
            => /\ pc' = "p196"
               /\ UNCHANGED <<line, nbody, pos, file, vocal, parser>>
       /\ pc = "p196"
            => /\ pc' = "full_done"
               /\ UNCHANGED <<line, nbody, pos, file, parser>>
               /\ IsPrefix(m_song'.vocalTracks[LEAD_VOCAL].notes, vocal.notes)]_vars

\* C9 happens: an E line ended a stream and its notes were published
C9_Witness ==
    /\ pc = "full_done" /\ prev.ret = "false"
    /\ prev.line[1] = "E" /\ prev.nbody < MaxBodyLines
    /\ Published.notes # <<>> /\ Published.notes = PrevNotes

\* C10: after a full parse that ended in a fatal error the Song's tracks
\* and its load status are what they were when the call began, and the
\* Song is not marked FULL.
C10_FatalPublishesNothing ==
    pc = "full_failed"
        => /\ m_song.vocalTracks = call.song.vocalTracks
           /\ m_song.loadStatus = call.song.loadStatus
           /\ m_song.loadStatus # "FULL"

\* C10 happens: a body line raised the error after notes had been parsed
C10_Witness ==
    /\ pc = "full_failed" /\ prev.ret = "throw"
    /\ PrevNotes # <<>>
    /\ Published.notes = <<>>

\* C14 as stated: while the note loop runs without a fatal error, every
\* note of the track ends no later than the note after it begins, SLEEP
\* notes included.
C14_Chronological ==
    pc \in {"p194", "p196", "full_done"}
        => \A i \in 1..(Len(vocal.notes) - 1) :
              vocal.notes[i].end <= vocal.notes[i + 1].begin

\* C15: every note of the track being parsed, and of the published track,
\* begins no later than it ends, also after overlap recovery has shortened
\* it and for a SLEEP line whose end tick is smaller than its tick.
C15_BeginBeforeEnd ==
    /\ \A i \in 1..Len(vocal.notes) : vocal.notes[i].begin <= vocal.notes[i].end
    /\ \A k \in DOMAIN m_song.vocalTracks :
          \A i \in 1..Len(m_song.vocalTracks[k].notes) :
              m_song.vocalTracks[k].notes[i].begin <= m_song.vocalTracks[k].notes[i].end

\* C15 happens: a SLEEP line whose end tick is smaller than its tick was
\* appended after a note that recovery had shortened for it
C15_Witness ==
    /\ Processed /\ prev.line = SleepLine2(MaxTick, 0) /\ Appended
    /\ Overlap /\ PrevNotes # <<>>
    /\ vocal.notes[Len(PrevNotes)].end < LastBefore.end
    /\ prev.n.end < prev.n.begin

\* C16 as stated: addBPM is never called with a tempo of 0, neither for the
\* BPM of the header nor for a B line among the notes.
C16_NoZeroTempo ==
    /\ HeaderBPMArguments(parser).called => HeaderBPMArguments(parser).bpm # 0
    /\ (Processed /\ prev.line # <<>> /\ prev.line[1] = "B"
            /\ AddBPMArguments(prev.line).called)
          => AddBPMArguments(prev.line).bpm # 0

\* the first number written on a note line, and whether there is one
WrittenTick(ln) == ExtractUInt([Stream(ln) EXCEPT !.p = 1], 0, TRUE)

\* the end tick written on a SLEEP line, or its tick when none is written
WrittenEnd(ln) ==
    LET r == ExtractUInt(WrittenTick(ln).st, 0, TRUE)
    IN  IF r.st.fail THEN WrittenTick(ln).val ELSE r.val

\* the note loop has just gone through a note line with a tick written on it
NoteLineProcessed ==
    /\ Processed /\ prev.ret = "true" /\ prev.line # <<>>
    /\ prev.line[1] \in {NORMAL, FREESTYLE, GOLDEN, SLEEP}
    /\ ~WrittenTick(prev.line).st.fail

\* m_relativeShift as the line found it
ShiftBefore == prev.parser.m_relativeShift

\* C17 as stated: in relative mode the tick of a note line is its written
\* tick plus m_relativeShift; after a SLEEP line m_relativeShift is the
\* shifted end tick of that line and other lines leave it alone, except
\* that after a line that met an empty track it is the line's tick as
\* written; without relative mode the tick is used as written and
\* m_relativeShift does not change.
C17_Reanchoring ==
    NoteLineProcessed =>
        IF ~prev.parser.m_relative
        THEN /\ parser.m_prevts = WrittenTick(prev.line).val
             /\ parser.m_relativeShift = ShiftBefore
        ELSE /\ parser.m_prevts = WrittenTick(prev.line).val + ShiftBefore
             /\ parser.m_relativeShift =
                  IF PrevNotes = <<>> THEN WrittenTick(prev.line).val
                  ELSE IF prev.line[1] = SLEEP
                  THEN WrittenEnd(prev.line) + ShiftBefore
                  ELSE ShiftBefore

\* the lines that may follow in the file
Rests ==
    UNION { [1..k -> BodyLines] : k \in 0..MaxRest }

\* without relative mode, the note loop has just dropped a SLEEP line that
\* met an empty track
LeadingSleepDropped ==
    /\ Processed /\ prev.ret = "true" /\ prev.line # <<>> /\ prev.line[1] = SLEEP
    /\ PrevNotes = <<>> /\ ~prev.parser.m_relative

\* C18 as stated: without relative mode, a SLEEP line that is dropped on an
\* empty track has no effect on the result: whatever lines follow, the full
\* parse ends as it would have ended had the SLEEP line not been there.
C18_LeadingSleep ==
    LeadingSleepDropped =>
        \A rest \in Rests :
            RestOfParse(rest, vocal, parser)
                = RestOfParse(rest, prev.vocal, prev.parser)

\* in notes, the flagged notes are those that a SLEEP follows
FlagsMatchSleeps(notes) ==
    \A i \in 1..Len(notes) :
        notes[i].lineBreak <=> (i < Len(notes) /\ notes[i + 1].type = SLEEP)

\* C19: in the track being parsed and in every track of the Song, a note
\* has lineBreak set exactly when the note after it in the track is a
\* SLEEP.
C19_LineBreak ==
    /\ FlagsMatchSleeps(vocal.notes)
    /\ \A k \in DOMAIN m_song.vocalTracks :
          FlagsMatchSleeps(m_song.vocalTracks[k].notes)

\* C19 happens: a full parse has published a track with a flagged note
\* before a SLEEP and a note without the flag
C19_Witness ==
    /\ pc = "full_done" /\ Len(Published.notes) >= 3
    /\ Published.notes[2].type = SLEEP /\ Published.notes[1].lineBreak
    /\ ~Published.notes[3].lineBreak

\* the keys that the field parser knows
RecognizedKeys ==
    { K_TITLE, K_ARTIST, K_EDITION, K_GENRE, K_CREATOR, K_COVER, K_MP3,
      K_VOCALS, K_VIDEO, K_BACKGROUND, K_START, K_VIDEOGAP, K_PREVIEWSTART,
      K_RELATIVE, K_GAP, K_BPM, K_LANGUAGE }

\* a line that is ignored: a blank line (one without characters), or a line
\* that starts with '#' and holds a ':' whose value is blank or whose key
\* is not known
IgnoredLine(ln) ==
    \/ ln = <<>>
    \/ /\ ln # <<>> /\ ln[1] = "#" /\ \E i \in 1..Len(ln) : ln[i] = ":"
       /\ \A key \in RecognizedKeys : ~SetsKey(ln, key)

\* a line with characters that does not start with '#'
EndsHeader(ln) == ln # <<>> /\ ln # EOF /\ ln[1] # "#"

\* a step of a field loop, which reads the line file'[pos']
FieldStep == pc \in {"h182", "p192"} /\ pos' = pos + 1

\* C20: a field loop that reads an ignored line goes on with the next line
\* and leaves the Song and the parser as they are; one that reads a line
\* with characters that does not start with '#' is left without an error,
\* with the Song and the parser as they are.
C20_IgnoredLines ==
    [][ FieldStep =>
          /\ IgnoredLine(file'[pos'])
                => m_song' = m_song /\ parser' = parser /\ pc' = pc
          /\ EndsHeader(file'[pos'])
                => /\ m_song' = m_song /\ parser' = parser
                   /\ pc' = IF pc = "h182" THEN "h183" ELSE "p193" ]_vars

\* C20 happens: the field loop goes on after a line with a key that is not
\* known, in a parse that had set the title and the BPM before
C20_Witness ==
    /\ pc \in {"h182", "p192"} /\ pos >= 1
    /\ file[pos] = HeaderLine(<<"F", "O", "O">>, <<"1">>)
    /\ m_song.title # <<>> /\ parser.m_bpm # 0

\* notes does not start with a SLEEP
NoLeadingSleep(notes) == notes # <<>> => notes[1].type # SLEEP

\* C21: the first note of the track being parsed, and of every track of the
\* Song, is never a SLEEP; and when a line that overlaps met a track whose
\* last note is a SLEEP, that track held at least two notes, so the note
\* two back that recovery reads is a note of the track.
C21_LookbackExists ==
    /\ NoLeadingSleep(vocal.notes)
    /\ \A k \in DOMAIN m_song.vocalTracks :
          NoLeadingSleep(m_song.vocalTracks[k].notes)
    /\ (Overlap /\ PrevNotes # <<>> /\ LastBefore.type = SLEEP)
          => Len(PrevNotes) >= 2

\* C21 happens: a line that overlaps met a track of two notes whose last
\* note is a SLEEP, and recovery read the note two back
C21_Witness ==
    /\ Overlap /\ Len(PrevNotes) = 2 /\ LastBefore.type = SLEEP
    /\ PrevNotes[1].type # SLEEP /\ prev.ret = "true"

====
